---- MODULE Spec2Model ----
(***************************************************************************)
(* A model of the benchmark client (src/client/client.go) and of the       *)
(* command/state package it drives (package state).                        *)
(*                                                                         *)
(*   Spec          the raw-protocol pipeline: per client one issuer        *)
(*                 (simulatedClientWriter) and one receiver                *)
(*                 (simulatedClientReader) sharing an                      *)
(*                 outstandingRequestInfo, and the aggregator (printer)    *)
(*                 draining the readings channel.                          *)
(*   SpecPacing    the same pipeline started with a zero or negative       *)
(*                 -poisson.                                               *)
(*   SpecGryff     -replProtocol gryff: one simulatedGryffClientWriter per *)
(*                 client, and printer with its sums and totalOrs.         *)
(*   SpecConflict  state.Conflict applied to pairs of commands.            *)
(*   SpecBatch     state.ConflictBatch applied to pairs of batches.        *)
(*   SpecExec      Command.Execute called sequentially on one State.       *)
(*   SpecRMW       two goroutines calling Command.Execute on one State.    *)
(*   SpecRamp      the loop of printerMultipeFile with its ramp-up and     *)
(*                 ramp-down window, the clock in fractions of a second.   *)
(***************************************************************************)
EXTENDS Integers, Sequences, FiniteSets, TLC

(* ------------------------------ bounds -------------------------------- *)
\* -or: outstanding requests a client may have
OutstandingReqs == 1
\* requests that all issuers together send before the exploration stops
MaxReqs == 2
\* capacity of the readings channel (100000 in main, scaled down)
ReadingsCap == 1
\* cap of the missed-departure counter queuedReqs
MaxQueued == 1

\* the simulated clients (-T): indices into orInfos
Clients == {1, 2}
Ids == 0..(MaxReqs - 1)

(* --------------------------- package state ---------------------------- *)
NONE == 0
PUT == 1
GET == 2
DELETE == 3
RLOCK == 4
RMW == 5
Operations == {NONE, PUT, GET, DELETE, RLOCK, RMW}
NIL == 0

(* ------------------------------- time ---------------------------------- *)
\* the zero time.Time a map lookup yields for a missing id
ZeroTime == 0
\* the instant `before := time.Now()` of the issuer's iteration i
IssueTime(i) == i + 1

\* -poisson values explored; -1 disables Poisson pacing
PoissonAvgs == {-1, 5}
\* -poisson values that are zero or negative
NonPositiveAvgs == {-2, -1, 0}

VARIABLES
  poissonAvg,   \* the -poisson flag
  sema,         \* sema[c]: units of orInfo.sema currently held
  startTimes,   \* startTimes[c]: map id -> issue time
  isRead,       \* isRead[c]: map id -> TRUE
  wpc,          \* issuer position: "acquire", "pace" and "missed" (asleep for
                \* one inter-arrival interval), "flush", "record"; the Gryff
                \* writer also "call", "release", "send"
  id,           \* issuer loop variable id
  argsOp,       \* args.Command.Op of the issuer
  queuedReqs,   \* issuer local queuedReqs
  wire,         \* wire[c]: ids sent on the connection, reply not yet read
  rpc,          \* receiver position: "read", "release", "lookup", "send", "dead"
  reply,        \* receiver's reply.CommandId
  resp,         \* the response the receiver is about to send
  readings,     \* the readings channel: a sequence of responses
  ppc,          \* aggregator (main goroutine) position: "create", "sleep",
                \* "drain"; "exited" once main has returned
  count,        \* aggregator local: receives left in this tick
  panicked,     \* a goroutine panicked (semaphore released more than held)
  unacked,      \* history: ids flushed whose unit the receiver has not released
  sentCnt,      \* history: sentCnt[c][i]: records sent on readings for reply i
  recvCnt,      \* history: recvCnt[c][i]: records the aggregator received
  deadFree,     \* history: free units when the receiver loop broke, else -1
  deadSent,     \* history: requests flushed when the receiver loop broke, else -1
  deadAdm       \* history: iterations admitted when the receiver loop broke, else -1

VARIABLES
  success,      \* success[c]: result of client.Read / client.Write
  after,        \* after[c]: the Gryff writer's local `after`
  failLog,      \* the (client, id) pairs logged as "Failed (id)."
  sum,          \* printer local: sum of resp.rtt over this tick
  totalOrs,     \* totalOrs of the last summary line written
  drained,      \* printer: records received so far in this tick (its i)
  latLines,     \* lines written to latency.txt
  lattputLines, \* lines written to lattput.txt
  lattputLast,  \* avg, tput and count of the last line of lattput.txt
  ticks         \* history: ticks begun (returns of time.Sleep)

VARIABLES
  startRange,   \* the -sr flag (an int)
  kid,          \* the issuer's loop variable id (an int32) in its key choice
  keyId,        \* the id whose key was chosen last
  keyK,         \* the key chosen last (args.Command.K)
  keyCold       \* the key chosen last came from the cold branch

VARIABLES
  gryffMode,    \* *replProtocol == "gryff"
  mutex,        \* mutex[c]: the paths inside Lock()..Unlock() of client c's record
  lwpc,         \* lwpc[c]: issuer / Gryff writer around its locked section
  lrpc,         \* lrpc[c]: receiver around its locked section
  lppc,         \* printer around the locked section of its totalOrs loop
  pidx,         \* printer: the i of its totalOrs loop (1-based)
  ors,          \* printer local totalOrs
  acc           \* history: the last access to a startTimes / isRead table

VARIABLES
  gamma,        \* first argument of Conflict
  delta,        \* second argument of Conflict
  conflictRes,  \* <<b>> once Conflict has returned b, <<>> before the call
  batch1,       \* first argument of ConflictBatch
  batch2,       \* second argument of ConflictBatch
  batchRes      \* <<b>> once ConflictBatch has returned b, <<>> before the call

VARIABLES
  goroutines,   \* number of goroutines that call Execute
  Store,        \* st.Store: map Key -> Value
  epc,          \* epc[t]: "idle", "switch", "rmw" (between read and write), "fatal"
  ecmd,         \* ecmd[t]: the receiver c of Execute
  eval,         \* eval[t]: local val of the RMW case
  eret,         \* eret[t]: the value Execute returned last
  edone,        \* history: edone[t]: calls of Execute that returned
  rmwCnt,       \* history: rmwCnt[k]: RMW executions on k that returned
  putOn         \* history: putOn[k]: a PUT on k was executed

VARIABLES
  rampUp,         \* -rampUp, seconds
  rampDown,       \* -rampDown, seconds
  timeout,        \* -timeout, seconds
  elapsed,        \* clock steps since experimentStart
  currentRuntime, \* the tick's currentRuntime, in clock steps
  buffered,       \* len(readings)
  mpc,            \* "sleep" or "drain"
  mcount,         \* receives left in this tick
  tickDrained,    \* history: records received in this tick
  tickTraced,     \* history: trace lines written in this tick
  tickSummary     \* history: summary lines written in this tick

keyVars == <<startRange, kid, keyId, keyK, keyCold>>
lockVars == <<gryffMode, mutex, lwpc, lrpc, lppc, pidx, ors, acc>>
confVars == <<gamma, delta, conflictRes, batch1, batch2, batchRes, keyVars, lockVars>>
execVars == <<goroutines, Store, epc, ecmd, eval, eret, edone, rmwCnt, putOn>>
rampVars == <<rampUp, rampDown, timeout, elapsed, currentRuntime, buffered, mpc,
              mcount, tickDrained, tickTraced, tickSummary>>

orVars == <<sema, startTimes, isRead>>
wVars == <<wpc, id, argsOp, queuedReqs>>
rVars == <<rpc, reply, resp>>
pVars == <<ppc, count>>
deadVars == <<deadFree, deadSent, deadAdm>>
histVars == <<unacked, sentCnt, recvCnt>>

fileVars == <<drained, latLines, lattputLines, lattputLast, ticks>>
gryffVars == <<success, after, failLog, sum, totalOrs, fileVars>>

pipeVars == <<poissonAvg, orVars, wVars, wire, rVars, readings, pVars,
              panicked, histVars, deadVars, gryffVars>>

vars == <<pipeVars, confVars, execVars, rampVars>>

(* ------------------------------- maps --------------------------------- *)
\* m[k] = v of a Go map
MapSet(m, k, v) == [x \in (DOMAIN m) \cup {k} |-> IF x = k THEN v ELSE m[x]]
\* delete(m, k)
MapDelete(m, k) == [x \in (DOMAIN m) \ {k} |-> m[x]]
\* m[k], the zero value when k is missing
MapGet(m, k, zero) == IF k \in DOMAIN m THEN m[k] ELSE zero
EmptyMap == [x \in {} |-> 0]

NoResp == [client |-> 0]

(* ------------------------------- Init ---------------------------------- *)
\* no summary line written yet
NoLine == [avg |-> 0, tput |-> 0, count |-> 0]

\* the locals of the Gryff writer and of the printer before their loops
GryffIdle ==
  /\ success = [c \in Clients |-> FALSE]
  /\ after = [c \in Clients |-> ZeroTime]
  /\ failLog = {}
  /\ sum = 0
  /\ totalOrs = 0
  /\ drained = 0
  /\ latLines = 0
  /\ lattputLines = 0
  /\ lattputLast = NoLine
  /\ ticks = 0

\* the client goroutines as main starts them
WorkersStart ==
  /\ GryffIdle
  /\ sema = [c \in Clients |-> 0]
  /\ startTimes = [c \in Clients |-> EmptyMap]
  /\ isRead = [c \in Clients |-> EmptyMap]
  /\ wpc = [c \in Clients |-> "acquire"]
  /\ id = [c \in Clients |-> 0]
  /\ argsOp = [c \in Clients |-> PUT]
  /\ queuedReqs = [c \in Clients |-> 0]
  /\ wire = [c \in Clients |-> {}]
  /\ rpc = [c \in Clients |-> "read"]
  /\ reply = [c \in Clients |-> 0]
  /\ resp = [c \in Clients |-> NoResp]
  /\ readings = <<>>
  /\ count = 0
  /\ panicked = FALSE
  /\ unacked = [c \in Clients |-> {}]
  /\ sentCnt = [c \in Clients |-> [i \in Ids |-> 0]]
  /\ recvCnt = [c \in Clients |-> [i \in Ids |-> 0]]
  /\ deadFree = [c \in Clients |-> -1]
  /\ deadSent = [c \in Clients |-> -1]
  /\ deadAdm = [c \in Clients |-> -1]

\* the clients as main starts them, the output files of the printer created
PipeStart ==
  /\ WorkersStart
  /\ ppc = "sleep"

\* the clients as main starts them, the printer about to create its files
ExitInit ==
  /\ poissonAvg \in PoissonAvgs
  /\ WorkersStart
  /\ ppc = "create"

PipeInit ==
  /\ poissonAvg \in PoissonAvgs
  /\ PipeStart

\* the pipeline started with a zero or negative -poisson
PacingInit ==
  /\ poissonAvg \in NonPositiveAvgs
  /\ PipeStart

(* -------------------------------- main --------------------------------- *)
\* variant: the client goroutines outlive the return of main
ExitedNever == FALSE

\* main has returned from printer / printerMultipeFile: the program is over
\* and its goroutines run no further
Exited == ppc = "exited"

(* ------------------------ simulatedClientWriter ------------------------ *)
\* the operation kinds the issuer sets in args.Command.Op
IssuedOps == {PUT, GET}

\* requests the issuer has flushed to its connection so far
Flushed(c) == id[c] + (IF wpc[c] = "record" THEN 1 ELSE 0)

\* iterations the issuer has been admitted to so far
Admitted(c) == id[c] + (IF wpc[c] \in {"acquire", "missed"} THEN 0 ELSE 1)

RECURSIVE SumOver(_, _)
SumOver(f(_), S) ==
  IF S = {} THEN 0
  ELSE LET x == CHOOSE y \in S : TRUE IN f(x) + SumOver(f, S \ {x})

\* the exploration follows the issuers for MaxReqs requests in all
MayIssue == SumOver(Admitted, Clients) < MaxReqs

\* closed loop: orInfo.sema.Acquire(context.Background(), 1) blocks until a
\* unit is free
W_Acquire(c) ==
  /\ ~panicked
  /\ ~Exited
  /\ wpc[c] = "acquire"
  /\ poissonAvg = -1
  /\ MayIssue
  /\ sema[c] < OutstandingReqs
  /\ \E op \in IssuedOps : argsOp' = [argsOp EXCEPT ![c] = op]
  /\ sema' = [sema EXCEPT ![c] = @ + 1]
  /\ wpc' = [wpc EXCEPT ![c] = "flush"]
  /\ UNCHANGED <<gryffVars, confVars, execVars, rampVars, poissonAvg, startTimes, isRead, id, queuedReqs, wire, rVars,
                 readings, pVars, panicked, histVars, deadVars>>

\* variant: the successful TryAcquire sleeps whether or not a departure is
\* queued
W_TryAcquireOkAlwaysSleeps(c) ==
  /\ ~panicked
  /\ ~Exited
  /\ wpc[c] = "acquire"
  /\ poissonAvg # -1
  /\ MayIssue
  /\ sema[c] < OutstandingReqs
  /\ \E op \in IssuedOps : argsOp' = [argsOp EXCEPT ![c] = op]
  /\ sema' = [sema EXCEPT ![c] = @ + 1]
  /\ queuedReqs' = [queuedReqs EXCEPT ![c] = IF @ = 0 THEN 0 ELSE @ - 1]
  /\ wpc' = [wpc EXCEPT ![c] = "pace"]
  /\ UNCHANGED <<gryffVars, confVars, execVars, rampVars, poissonAvg, startTimes, isRead, id, wire, rVars,
                 readings, pVars, panicked, histVars, deadVars>>

\* Poisson: TryAcquire succeeded; go to sleep for one interval when nothing
\* is queued, else take one queued departure and leave the retry loop
W_TryAcquireOk(c) ==
  /\ ~panicked
  /\ ~Exited
  /\ wpc[c] = "acquire"
  /\ poissonAvg # -1
  /\ MayIssue
  /\ sema[c] < OutstandingReqs
  /\ \E op \in IssuedOps : argsOp' = [argsOp EXCEPT ![c] = op]
  /\ sema' = [sema EXCEPT ![c] = @ + 1]
  /\ queuedReqs' = [queuedReqs EXCEPT ![c] = IF @ = 0 THEN 0 ELSE @ - 1]
  /\ wpc' = [wpc EXCEPT ![c] = IF queuedReqs[c] = 0 THEN "pace" ELSE "flush"]
  /\ UNCHANGED <<gryffVars, confVars, execVars, rampVars, poissonAvg, startTimes, isRead, id, wire, rVars,
                 readings, pVars, panicked, histVars, deadVars>>

\* Poisson: time.Sleep(poissonGenerator.NextArrival()) after the successful
\* TryAcquire returns; break
W_Pace(c) ==
  /\ ~panicked
  /\ ~Exited
  /\ wpc[c] = "pace"
  /\ wpc' = [wpc EXCEPT ![c] = "flush"]
  /\ UNCHANGED <<gryffVars, confVars, execVars, rampVars, poissonAvg, orVars, id, argsOp, queuedReqs, wire, rVars,
                 readings, pVars, panicked, histVars, deadVars>>

\* variant: the failed TryAcquire leaves the retry loop as if it had a unit
W_TryAcquireFailBreaks(c) ==
  /\ ~panicked
  /\ ~Exited
  /\ wpc[c] = "acquire"
  /\ poissonAvg # -1
  /\ MayIssue
  /\ sema[c] >= OutstandingReqs
  /\ queuedReqs[c] < MaxQueued
  /\ queuedReqs' = [queuedReqs EXCEPT ![c] = @ + 1]
  /\ wpc' = [wpc EXCEPT ![c] = "flush"]
  /\ UNCHANGED <<gryffVars, confVars, execVars, rampVars, poissonAvg, orVars, id, argsOp, wire, rVars,
                 readings, pVars, panicked, histVars, deadVars>>

\* Poisson: TryAcquire failed; go to sleep for one interval
W_TryAcquireFail(c) ==
  /\ ~panicked
  /\ ~Exited
  /\ wpc[c] = "acquire"
  /\ poissonAvg # -1
  /\ sema[c] >= OutstandingReqs
  /\ queuedReqs[c] < MaxQueued
  /\ wpc' = [wpc EXCEPT ![c] = "missed"]
  /\ UNCHANGED <<gryffVars, confVars, execVars, rampVars, poissonAvg, orVars, id, argsOp, queuedReqs, wire, rVars,
                 readings, pVars, panicked, histVars, deadVars>>

\* Poisson: the sleep after the failed TryAcquire returns; queuedReqs += 1
\* and the loop tries again
W_Missed(c) ==
  /\ ~panicked
  /\ ~Exited
  /\ wpc[c] = "missed"
  /\ queuedReqs' = [queuedReqs EXCEPT ![c] = @ + 1]
  /\ wpc' = [wpc EXCEPT ![c] = "acquire"]
  /\ UNCHANGED <<gryffVars, confVars, execVars, rampVars, poissonAvg, orVars, id, argsOp, wire, rVars,
                 readings, pVars, panicked, histVars, deadVars>>

\* before := time.Now(); WriteByte; Marshal; Flush
W_Flush(c) ==
  /\ ~panicked
  /\ ~Exited
  /\ wpc[c] = "flush"
  /\ wire' = [wire EXCEPT ![c] = @ \cup {id[c]}]
  /\ unacked' = [unacked EXCEPT ![c] = @ \cup {id[c]}]
  /\ wpc' = [wpc EXCEPT ![c] = "record"]
  /\ UNCHANGED <<gryffVars, confVars, execVars, rampVars, poissonAvg, orVars, id, argsOp, queuedReqs, rVars,
                 readings, pVars, panicked, sentCnt, recvCnt, deadVars>>

\* orInfo.Lock(); isRead[id] = true for a GET; startTimes[id] = before;
\* orInfo.Unlock(); id++
W_Record(c) ==
  /\ ~panicked
  /\ ~Exited
  /\ wpc[c] = "record"
  /\ isRead' = [isRead EXCEPT ![c] =
                  IF argsOp[c] = GET THEN MapSet(@, id[c], TRUE) ELSE @]
  /\ startTimes' = [startTimes EXCEPT ![c] = MapSet(@, id[c], IssueTime(id[c]))]
  /\ id' = [id EXCEPT ![c] = @ + 1]
  /\ wpc' = [wpc EXCEPT ![c] = "acquire"]
  /\ UNCHANGED <<gryffVars, confVars, execVars, rampVars, poissonAvg, sema, argsOp, queuedReqs, wire, rVars,
                 readings, pVars, panicked, histVars, deadVars>>

(* ------------------------ simulatedClientReader ------------------------ *)
\* reply.Unmarshal succeeded with OK # 0; after := time.Now()
R_Unmarshal(c) ==
  /\ ~panicked
  /\ ~Exited
  /\ rpc[c] = "read"
  /\ \E i \in wire[c] :
       /\ wire' = [wire EXCEPT ![c] = @ \ {i}]
       /\ reply' = [reply EXCEPT ![c] = i]
  /\ rpc' = [rpc EXCEPT ![c] = "release"]
  /\ UNCHANGED <<gryffVars, confVars, execVars, rampVars, poissonAvg, orVars, wVars, resp, readings, pVars, panicked,
                 histVars, deadVars>>

\* the receiver loop breaks: remember what the issuer had at that moment
Break(c) ==
  /\ rpc' = [rpc EXCEPT ![c] = "dead"]
  /\ deadFree' = [deadFree EXCEPT ![c] = OutstandingReqs - sema[c]]
  /\ deadSent' = [deadSent EXCEPT ![c] = Flushed(c)]
  /\ deadAdm' = [deadAdm EXCEPT ![c] = Admitted(c)]

\* variant: the unit is released before the status of the reply is looked at
R_FailureReleases(c) ==
  /\ ~panicked
  /\ ~Exited
  /\ rpc[c] = "read"
  /\ \E i \in wire[c] :
       /\ wire' = [wire EXCEPT ![c] = @ \ {i}]
       /\ reply' = [reply EXCEPT ![c] = i]
  /\ Break(c)
  /\ sema' = [sema EXCEPT ![c] = IF @ > 0 THEN @ - 1 ELSE 0]
  /\ UNCHANGED <<gryffVars, confVars, execVars, rampVars, poissonAvg, startTimes, isRead, wVars, resp, readings, pVars,
                 panicked, histVars>>

\* a reply with OK = 0: log and break
R_Failure(c) ==
  /\ ~panicked
  /\ ~Exited
  /\ rpc[c] = "read"
  /\ \E i \in wire[c] :
       /\ wire' = [wire EXCEPT ![c] = @ \ {i}]
       /\ reply' = [reply EXCEPT ![c] = i]
  /\ Break(c)
  /\ UNCHANGED <<gryffVars, confVars, execVars, rampVars, poissonAvg, orVars, wVars, resp, readings, pVars, panicked,
                 histVars>>

\* reply.Unmarshal returned an error: log and break
R_DecodeError(c) ==
  /\ ~panicked
  /\ ~Exited
  /\ rpc[c] = "read"
  /\ Break(c)
  /\ UNCHANGED <<gryffVars, confVars, execVars, rampVars, poissonAvg, orVars, wVars, wire, reply, resp, readings, pVars,
                 panicked, histVars>>

\* variant: the receiver accounts the reply without releasing its unit
R_ReleaseSkipped(c) ==
  /\ ~panicked
  /\ ~Exited
  /\ rpc[c] = "release"
  /\ unacked' = [unacked EXCEPT ![c] = @ \ {reply[c]}]
  /\ rpc' = [rpc EXCEPT ![c] = "lookup"]
  /\ UNCHANGED <<gryffVars, confVars, execVars, rampVars, poissonAvg, orVars, wVars, wire, reply, resp,
                 readings, pVars, panicked, sentCnt, recvCnt, deadVars>>

\* orInfo.sema.Release(1); Release panics when more is released than held
R_Release(c) ==
  /\ ~panicked
  /\ ~Exited
  /\ rpc[c] = "release"
  /\ IF sema[c] = 0
       THEN /\ panicked' = TRUE
            /\ UNCHANGED <<sema, unacked, rpc>>
       ELSE /\ sema' = [sema EXCEPT ![c] = @ - 1]
            /\ unacked' = [unacked EXCEPT ![c] = @ \ {reply[c]}]
            /\ rpc' = [rpc EXCEPT ![c] = "lookup"]
            /\ UNCHANGED panicked
  /\ UNCHANGED <<gryffVars, confVars, execVars, rampVars, poissonAvg, startTimes, isRead, wVars, wire, reply, resp,
                 readings, pVars, sentCnt, recvCnt, deadVars>>

\* orInfo.Lock(); before := startTimes[id]; isRead := isRead[id];
\* delete(startTimes, id); orInfo.Unlock(); rtt := after.Sub(before)
R_Lookup(c) ==
  /\ ~panicked
  /\ ~Exited
  /\ rpc[c] = "lookup"
  /\ resp' = [resp EXCEPT ![c] =
                [client |-> c, id |-> reply[c],
                 before |-> MapGet(startTimes[c], reply[c], ZeroTime),
                 isRead |-> MapGet(isRead[c], reply[c], FALSE)]]
  /\ startTimes' = [startTimes EXCEPT ![c] = MapDelete(@, reply[c])]
  /\ rpc' = [rpc EXCEPT ![c] = "send"]
  /\ UNCHANGED <<gryffVars, confVars, execVars, rampVars, poissonAvg, sema, isRead, wVars, wire, reply, readings, pVars,
                 panicked, histVars, deadVars>>

\* variant: a send that gives up (select with default) when the channel is full
R_SendOrDrop(c) ==
  /\ ~panicked
  /\ ~Exited
  /\ rpc[c] = "send"
  /\ IF Len(readings) < ReadingsCap
       THEN /\ readings' = Append(readings, resp[c])
            /\ sentCnt' = [sentCnt EXCEPT ![c][reply[c]] = @ + 1]
       ELSE UNCHANGED <<readings, sentCnt>>
  /\ resp' = [resp EXCEPT ![c] = NoResp]
  /\ rpc' = [rpc EXCEPT ![c] = "read"]
  /\ UNCHANGED <<gryffVars, confVars, execVars, rampVars, poissonAvg, orVars, wVars, wire, reply, pVars, panicked,
                 unacked, recvCnt, deadVars>>

\* variant: a send that makes room by discarding the oldest buffered record
R_SendOverwrite(c) ==
  /\ ~panicked
  /\ ~Exited
  /\ rpc[c] = "send"
  /\ readings' = IF Len(readings) < ReadingsCap
                   THEN Append(readings, resp[c])
                   ELSE Append(Tail(readings), resp[c])
  /\ sentCnt' = [sentCnt EXCEPT ![c][reply[c]] = @ + 1]
  /\ resp' = [resp EXCEPT ![c] = NoResp]
  /\ rpc' = [rpc EXCEPT ![c] = "read"]
  /\ UNCHANGED <<gryffVars, confVars, execVars, rampVars, poissonAvg, orVars, wVars, wire, reply, pVars, panicked,
                 unacked, recvCnt, deadVars>>

\* readings <- &response{...}: blocks while the channel is full
R_Send(c) ==
  /\ ~panicked
  /\ ~Exited
  /\ rpc[c] = "send"
  /\ Len(readings) < ReadingsCap
  /\ readings' = Append(readings, resp[c])
  /\ sentCnt' = [sentCnt EXCEPT ![c][reply[c]] = @ + 1]
  /\ resp' = [resp EXCEPT ![c] = NoResp]
  /\ rpc' = [rpc EXCEPT ![c] = "read"]
  /\ UNCHANGED <<gryffVars, confVars, execVars, rampVars, poissonAvg, orVars, wVars, wire, reply, pVars, panicked,
                 unacked, recvCnt, deadVars>>

(* ------------------------------ printer -------------------------------- *)
\* time.Sleep(time.Second); count := len(readings)
P_Sleep ==
  /\ ~panicked
  /\ ppc = "sleep"
  /\ count' = Len(readings)
  /\ ppc' = "drain"
  /\ UNCHANGED <<gryffVars, confVars, execVars, rampVars, poissonAvg, orVars, wVars, wire, rVars, readings, panicked,
                 histVars, deadVars>>

\* resp := <-readings, one iteration of the drain loop
P_Recv ==
  /\ ~panicked
  /\ ppc = "drain"
  /\ count > 0
  /\ Len(readings) > 0
  /\ recvCnt' = [recvCnt EXCEPT ![Head(readings).client][Head(readings).id] = @ + 1]
  /\ readings' = Tail(readings)
  /\ count' = count - 1
  /\ UNCHANGED <<gryffVars, confVars, execVars, rampVars, poissonAvg, orVars, wVars, wire, rVars, ppc, panicked,
                 unacked, sentCnt, deadVars>>

\* the drain loop is over: averages, totalOrs, the summary line
P_Summary ==
  /\ ~panicked
  /\ ppc = "drain"
  /\ count = 0
  /\ ppc' = "sleep"
  /\ UNCHANGED <<gryffVars, confVars, execVars, rampVars, poissonAvg, orVars, wVars, wire, rVars, readings, count,
                 panicked, histVars, deadVars>>

(* ---------------------- simulatedGryffClientWriter --------------------- *)
\* The Gryff writer chooses its operation and takes its admission unit with
\* the statements of simulatedClientWriter (W_Acquire, W_TryAcquireOk, W_Pace,
\* W_TryAcquireFail, W_Missed); here argsOp = GET stands for opType = READ.

\* the instant `after = time.Now()` of the successful iteration i
ReturnTime(i) == IssueTime(i) + 1

\* before := time.Now(); client.Read(k) or client.Write(k, id) is called
G_Call(c) ==
  /\ ~panicked
  /\ ~Exited
  /\ wpc[c] = "flush"
  /\ success' = [success EXCEPT ![c] = FALSE]
  /\ after' = [after EXCEPT ![c] = ZeroTime]
  /\ wpc' = [wpc EXCEPT ![c] = "call"]
  /\ UNCHANGED <<confVars, execVars, rampVars, poissonAvg, orVars, id, argsOp, queuedReqs, wire, rVars,
                 readings, pVars, panicked, histVars, deadVars, failLog, sum, totalOrs, fileVars>>

\* the call returns; if success { after = time.Now() } else { log "Failed" }
G_Return(c) ==
  /\ ~panicked
  /\ ~Exited
  /\ wpc[c] = "call"
  /\ \E ok \in BOOLEAN :
       /\ success' = [success EXCEPT ![c] = ok]
       /\ after' = [after EXCEPT ![c] = IF ok THEN ReturnTime(id[c]) ELSE ZeroTime]
       /\ failLog' = IF ok THEN failLog ELSE failLog \cup {<<c, id[c]>>}
  /\ wpc' = [wpc EXCEPT ![c] = "record"]
  /\ UNCHANGED <<confVars, execVars, rampVars, poissonAvg, orVars, id, argsOp, queuedReqs, wire, rVars,
                 readings, pVars, panicked, histVars, deadVars, sum, totalOrs, fileVars>>

\* orInfo.Lock(); orInfo.startTimes[id] = before; orInfo.Unlock()
G_Record(c) ==
  /\ ~panicked
  /\ ~Exited
  /\ wpc[c] = "record"
  /\ startTimes' = [startTimes EXCEPT ![c] = MapSet(@, id[c], IssueTime(id[c]))]
  /\ wpc' = [wpc EXCEPT ![c] = "release"]
  /\ UNCHANGED <<gryffVars, confVars, execVars, rampVars, poissonAvg, sema, isRead, id, argsOp,
                 queuedReqs, wire, rVars, readings, pVars, panicked, histVars, deadVars>>

\* variant: the unit is given back only after a call that succeeded
G_ReleaseOnSuccess(c) ==
  /\ ~panicked
  /\ ~Exited
  /\ wpc[c] = "release"
  /\ sema' = [sema EXCEPT ![c] = IF success[c] THEN @ - 1 ELSE @]
  /\ wpc' = [wpc EXCEPT ![c] = "send"]
  /\ UNCHANGED <<gryffVars, confVars, execVars, rampVars, poissonAvg, startTimes, isRead, id, argsOp,
                 queuedReqs, wire, rVars, readings, pVars, panicked, histVars, deadVars>>

\* orInfo.sema.Release(1)
G_Release(c) ==
  /\ ~panicked
  /\ ~Exited
  /\ wpc[c] = "release"
  /\ sema' = [sema EXCEPT ![c] = @ - 1]
  /\ wpc' = [wpc EXCEPT ![c] = "send"]
  /\ UNCHANGED <<gryffVars, confVars, execVars, rampVars, poissonAvg, startTimes, isRead, id, argsOp,
                 queuedReqs, wire, rVars, readings, pVars, panicked, histVars, deadVars>>

\* rtt := after.Sub(before); readings <- &response{after, rtt, 0, isRead,
\* leader}, blocking while the channel is full; id++
G_Send(c) ==
  /\ ~panicked
  /\ ~Exited
  /\ wpc[c] = "send"
  /\ Len(readings) < ReadingsCap
  /\ readings' = Append(readings,
                    [client |-> c, id |-> id[c],
                     receivedAt |-> after[c],
                     rtt |-> after[c] - IssueTime(id[c]),
                     isRead |-> (argsOp[c] = GET)])
  /\ sentCnt' = [sentCnt EXCEPT ![c][id[c]] = @ + 1]
  /\ id' = [id EXCEPT ![c] = @ + 1]
  /\ wpc' = [wpc EXCEPT ![c] = "acquire"]
  /\ UNCHANGED <<gryffVars, confVars, execVars, rampVars, poissonAvg, orVars, argsOp, queuedReqs, wire,
                 rVars, pVars, panicked, unacked, recvCnt, deadVars>>

(* ------------------------ printer, its files --------------------------- *)
\* os.Create succeeded for the output files
P_CreateOk ==
  /\ ~panicked
  /\ ppc = "create"
  /\ ppc' = "sleep"
  /\ UNCHANGED <<gryffVars, confVars, execVars, rampVars, poissonAvg, orVars, wVars, wire, rVars, readings,
                 count, panicked, histVars, deadVars>>

\* os.Create failed: log.Println; return; back in main, main returns
P_CreateFails ==
  /\ ~panicked
  /\ ppc = "create"
  /\ ppc' = "exited"
  /\ UNCHANGED <<gryffVars, confVars, execVars, rampVars, poissonAvg, orVars, wVars, wire, rVars, readings,
                 count, panicked, histVars, deadVars>>

(* ------------------- printer, with its sums and totals ----------------- *)
\* ticks of the printer the exploration follows
MaxTicks == 2

\* time.Sleep(time.Second); count := len(readings); sum = 0
A_Sleep ==
  /\ ~panicked
  /\ ppc = "sleep"
  /\ ticks < MaxTicks
  /\ ticks' = ticks + 1
  /\ count' = Len(readings)
  /\ sum' = 0
  /\ drained' = 0
  /\ ppc' = "drain"
  /\ UNCHANGED <<confVars, execVars, rampVars, poissonAvg, orVars, wVars, wire, rVars, readings, panicked,
                 histVars, deadVars, success, after, failLog, totalOrs,
                 latLines, lattputLines, lattputLast>>

\* resp := <-readings; latFile.WriteString(...); sum += resp.rtt
A_Recv ==
  /\ ~panicked
  /\ ppc = "drain"
  /\ count > 0
  /\ Len(readings) > 0
  /\ latLines' = latLines + 1
  /\ drained' = drained + 1
  /\ sum' = sum + Head(readings).rtt
  /\ recvCnt' = [recvCnt EXCEPT ![Head(readings).client][Head(readings).id] = @ + 1]
  /\ readings' = Tail(readings)
  /\ count' = count - 1
  /\ UNCHANGED <<confVars, execVars, rampVars, poissonAvg, orVars, wVars, wire, rVars, ppc, panicked,
                 unacked, sentCnt, deadVars, success, after, failLog, totalOrs,
                 lattputLines, lattputLast, ticks>>

\* len(orInfos[i].startTimes)
TableSize(c) == Cardinality(DOMAIN startTimes[c])

\* var avg, tput float64; if count > 0 { avg = sum / count; tput = count /
\* (the seconds from startTime to endTime, here one tick) }
SummaryLine(s, n) ==
  IF n > 0 THEN [avg |-> s \div n, tput |-> n, count |-> n]
           ELSE [avg |-> 0, tput |-> 0, count |-> n]

\* variant: a tick that drained nothing writes no summary line
A_SummarySkipsEmpty ==
  /\ ~panicked
  /\ ppc = "drain"
  /\ count = 0
  /\ totalOrs' = SumOver(TableSize, Clients)
  /\ IF drained > 0
       THEN /\ lattputLines' = lattputLines + 1
            /\ lattputLast' = SummaryLine(sum, drained)
       ELSE UNCHANGED <<lattputLines, lattputLast>>
  /\ ppc' = "sleep"
  /\ UNCHANGED <<confVars, execVars, rampVars, poissonAvg, orVars, wVars, wire, rVars, readings, count,
                 panicked, histVars, deadVars, success, after, failLog, sum,
                 drained, latLines, ticks>>

\* the averages; totalOrs += len(orInfos[i].startTimes) for every client,
\* under its lock; lattputFile.WriteString(...)
A_Summary ==
  /\ ~panicked
  /\ ppc = "drain"
  /\ count = 0
  /\ totalOrs' = SumOver(TableSize, Clients)
  /\ lattputLines' = lattputLines + 1
  /\ lattputLast' = SummaryLine(sum, drained)
  /\ ppc' = "sleep"
  /\ UNCHANGED <<confVars, execVars, rampVars, poissonAvg, orVars, wVars, wire, rVars, readings, count,
                 panicked, histVars, deadVars, success, after, failLog, sum,
                 drained, latLines, ticks>>

(* ============================ package state =========================== *)
\* keys and values the commands are drawn from
Keys == {42, 43}
Vals == {0, 7}
Commands == [Op : Operations, K : Keys, V : Vals]
NoCommand == [Op |-> NONE, K |-> 42, V |-> 0]

\* calls of Execute (of Conflict) the exploration follows
MaxCmds == 3

\* variant: only the first command is asked whether it writes
ConflictFirstOnly(g, d) ==
  IF g.K = d.K
    THEN (IF g.Op = PUT \/ g.Op = RMW THEN TRUE ELSE FALSE)
    ELSE FALSE

\* func Conflict(gamma *Command, delta *Command) bool
Conflict(g, d) ==
  IF g.K = d.K
    THEN (IF g.Op = PUT \/ g.Op = RMW \/ d.Op = PUT \/ d.Op = RMW
            THEN TRUE ELSE FALSE)
    ELSE FALSE

\* longest batch explored
MaxBatch == 2
\* the commands the batches are made of: a read and both kinds of write on
\* each key (Conflict does not look at V)
BatchCommands == [Op : {GET, PUT, RMW}, K : Keys, V : {0}]
Batches == UNION {[1..n -> BatchCommands] : n \in 0..MaxBatch}

\* variant: the inner loop looks at the first command of batch2 only
ConflictBatchHeads(b1, b2) ==
  /\ Len(b2) > 0
  /\ \E i \in 1..Len(b1) : Conflict(b1[i], b2[1])

\* the two loops of ConflictBatch, at batch1[i] and batch2[j] (from 1)
RECURSIVE ConflictBatchFrom(_, _, _, _)
ConflictBatchFrom(b1, b2, i, j) ==
  IF i > Len(b1) THEN FALSE
  ELSE IF j > Len(b2) THEN ConflictBatchFrom(b1, b2, i + 1, 1)
  ELSE IF Conflict(b1[i], b2[j]) THEN TRUE
  ELSE ConflictBatchFrom(b1, b2, i, j + 1)

\* func ConflictBatch(batch1 []Command, batch2 []Command) bool
ConflictBatch(b1, b2) == ConflictBatchFrom(b1, b2, 1, 1)

(* ------------- the locked sections of outstandingRequestInfo ------------ *)
\* requests per client followed through the locked sections
MaxLocked == 1
LockedIds == 0..(MaxLocked - 1)

\* the paths that lock a client's record; the printer is no client's path
IssuerOf(c) == <<"issuer", c>>
ReceiverOf(c) == <<"receiver", c>>
GryffOf(c) == <<"gryff", c>>
ThePrinter == <<"printer", 0>>

\* the record handed to the goroutines of client c: main makes a new one in
\* each iteration of its loop and stores it as orInfos[i]
Info(c) == c

NoAccess == [by |-> <<"none", 0>>, table |-> 0, write |-> FALSE, holders |-> {}]
\* path `by` reads or writes a table of record k
Access(by, k, w) == [by |-> by, table |-> k, write |-> w, holders |-> mutex[k]]

LockIdle ==
  /\ gryffMode = FALSE
  /\ mutex = [c \in Clients |-> {}]
  /\ lwpc = [c \in Clients |-> "lock"]
  /\ lrpc = [c \in Clients |-> "lock"]
  /\ lppc = "lock"
  /\ pidx = 1
  /\ ors = 0
  /\ acc = NoAccess

LockInit ==
  /\ gryffMode \in BOOLEAN
  /\ mutex = [c \in Clients |-> {}]
  /\ lwpc = [c \in Clients |-> "lock"]
  /\ lrpc = [c \in Clients |-> "lock"]
  /\ lppc = "lock"
  /\ pidx = 1
  /\ ors = 0
  /\ acc = NoAccess

\* all but the tables, the issuer's id and operation, the reply and lockVars
lockOther == <<poissonAvg, sema, wpc, queuedReqs, wire, rpc, resp, readings, pVars, panicked,
               histVars, deadVars, gryffVars, gamma, delta, conflictRes, batch1, batch2,
               batchRes, keyVars, execVars, rampVars>>

\* variant: a Lock that does not wait for the mutex to be free
W_LockNoWait(c) ==
  /\ ~gryffMode
  /\ lwpc[c] = "lock"
  /\ id[c] < MaxLocked
  /\ \E op \in {PUT, GET} : argsOp' = [argsOp EXCEPT ![c] = op]
  /\ mutex' = [mutex EXCEPT ![Info(c)] = @ \cup {IssuerOf(c)}]
  /\ lwpc' = [lwpc EXCEPT ![c] = "isread"]
  /\ UNCHANGED <<lockOther, startTimes, isRead, id, reply, gryffMode, lrpc, lppc, pidx, ors, acc>>

\* simulatedClientWriter, after its Flush: orInfo.Lock()
W_Lock(c) ==
  /\ ~gryffMode
  /\ lwpc[c] = "lock"
  /\ id[c] < MaxLocked
  /\ mutex[Info(c)] = {}
  /\ \E op \in {PUT, GET} : argsOp' = [argsOp EXCEPT ![c] = op]
  /\ mutex' = [mutex EXCEPT ![Info(c)] = @ \cup {IssuerOf(c)}]
  /\ lwpc' = [lwpc EXCEPT ![c] = "isread"]
  /\ UNCHANGED <<lockOther, startTimes, isRead, id, reply, gryffMode, lrpc, lppc, pidx, ors, acc>>

\* if args.Command.Op == state.GET { orInfo.isRead[id] = true }
W_SetIsRead(c) ==
  /\ lwpc[c] = "isread"
  /\ IF argsOp[c] = GET
       THEN /\ isRead' = [isRead EXCEPT ![Info(c)] = MapSet(@, id[c], TRUE)]
            /\ acc' = Access(IssuerOf(c), Info(c), TRUE)
       ELSE UNCHANGED <<isRead, acc>>
  /\ lwpc' = [lwpc EXCEPT ![c] = "start"]
  /\ UNCHANGED <<lockOther, startTimes, id, argsOp, reply, gryffMode, mutex, lrpc, lppc, pidx, ors>>

\* orInfo.startTimes[id] = before
W_SetStart(c) ==
  /\ lwpc[c] = "start"
  /\ startTimes' = [startTimes EXCEPT ![Info(c)] = MapSet(@, id[c], IssueTime(id[c]))]
  /\ acc' = Access(IssuerOf(c), Info(c), TRUE)
  /\ lwpc' = [lwpc EXCEPT ![c] = "unlock"]
  /\ UNCHANGED <<lockOther, isRead, id, argsOp, reply, gryffMode, mutex, lrpc, lppc, pidx, ors>>

\* orInfo.Unlock(); id++
W_Unlock(c) ==
  /\ lwpc[c] = "unlock"
  /\ mutex' = [mutex EXCEPT ![Info(c)] = @ \ {IssuerOf(c)}]
  /\ id' = [id EXCEPT ![c] = @ + 1]
  /\ lwpc' = [lwpc EXCEPT ![c] = "lock"]
  /\ UNCHANGED <<lockOther, startTimes, isRead, argsOp, reply, gryffMode, lrpc, lppc, pidx, ors, acc>>

\* simulatedClientReader, with a reply for some CommandId in hand, after its
\* Release: orInfo.Lock()
R_Lock(c) ==
  /\ ~gryffMode
  /\ lrpc[c] = "lock"
  /\ mutex[Info(c)] = {}
  /\ \E i \in LockedIds : reply' = [reply EXCEPT ![c] = i]
  /\ mutex' = [mutex EXCEPT ![Info(c)] = @ \cup {ReceiverOf(c)}]
  /\ lrpc' = [lrpc EXCEPT ![c] = "getstart"]
  /\ UNCHANGED <<lockOther, startTimes, isRead, id, argsOp, gryffMode, lwpc, lppc, pidx, ors, acc>>

\* before := orInfo.startTimes[reply.CommandId]
R_GetStart(c) ==
  /\ lrpc[c] = "getstart"
  /\ acc' = Access(ReceiverOf(c), Info(c), FALSE)
  /\ lrpc' = [lrpc EXCEPT ![c] = "getisread"]
  /\ UNCHANGED <<lockOther, startTimes, isRead, id, argsOp, reply, gryffMode, mutex, lwpc, lppc, pidx, ors>>

\* isRead := orInfo.isRead[reply.CommandId]
R_GetIsRead(c) ==
  /\ lrpc[c] = "getisread"
  /\ acc' = Access(ReceiverOf(c), Info(c), FALSE)
  /\ lrpc' = [lrpc EXCEPT ![c] = "delete"]
  /\ UNCHANGED <<lockOther, startTimes, isRead, id, argsOp, reply, gryffMode, mutex, lwpc, lppc, pidx, ors>>

\* delete(orInfo.startTimes, reply.CommandId)
R_Delete(c) ==
  /\ lrpc[c] = "delete"
  /\ startTimes' = [startTimes EXCEPT ![Info(c)] = MapDelete(@, reply[c])]
  /\ acc' = Access(ReceiverOf(c), Info(c), TRUE)
  /\ lrpc' = [lrpc EXCEPT ![c] = "unlock"]
  /\ UNCHANGED <<lockOther, isRead, id, argsOp, reply, gryffMode, mutex, lwpc, lppc, pidx, ors>>

\* orInfo.Unlock()
R_Unlock(c) ==
  /\ lrpc[c] = "unlock"
  /\ mutex' = [mutex EXCEPT ![Info(c)] = @ \ {ReceiverOf(c)}]
  /\ lrpc' = [lrpc EXCEPT ![c] = "lock"]
  /\ UNCHANGED <<lockOther, startTimes, isRead, id, argsOp, reply, gryffMode, lwpc, lppc, pidx, ors, acc>>

\* simulatedGryffClientWriter, after its call returned: orInfo.Lock()
G_Lock(c) ==
  /\ gryffMode
  /\ lwpc[c] = "lock"
  /\ id[c] < MaxLocked
  /\ mutex[Info(c)] = {}
  /\ mutex' = [mutex EXCEPT ![Info(c)] = @ \cup {GryffOf(c)}]
  /\ lwpc' = [lwpc EXCEPT ![c] = "gstart"]
  /\ UNCHANGED <<lockOther, startTimes, isRead, id, argsOp, reply, gryffMode, lrpc, lppc, pidx, ors, acc>>

\* orInfo.startTimes[id] = before; the isRead it sets is a local variable
G_SetStart(c) ==
  /\ lwpc[c] = "gstart"
  /\ startTimes' = [startTimes EXCEPT ![Info(c)] = MapSet(@, id[c], IssueTime(id[c]))]
  /\ acc' = Access(GryffOf(c), Info(c), TRUE)
  /\ lwpc' = [lwpc EXCEPT ![c] = "gunlock"]
  /\ UNCHANGED <<lockOther, isRead, id, argsOp, reply, gryffMode, mutex, lrpc, lppc, pidx, ors>>

\* orInfo.Unlock(); later in the iteration id++
G_Unlock(c) ==
  /\ lwpc[c] = "gunlock"
  /\ mutex' = [mutex EXCEPT ![Info(c)] = @ \ {GryffOf(c)}]
  /\ id' = [id EXCEPT ![c] = @ + 1]
  /\ lwpc' = [lwpc EXCEPT ![c] = "lock"]
  /\ UNCHANGED <<lockOther, startTimes, isRead, argsOp, reply, gryffMode, lrpc, lppc, pidx, ors, acc>>

\* printer: orInfos[i].Lock(), with totalOrs := 0 before the first i
P_Lock ==
  /\ lppc = "lock"
  /\ mutex[Info(pidx)] = {}
  /\ mutex' = [mutex EXCEPT ![Info(pidx)] = @ \cup {ThePrinter}]
  /\ ors' = IF pidx = 1 THEN 0 ELSE ors
  /\ lppc' = "len"
  /\ UNCHANGED <<lockOther, startTimes, isRead, id, argsOp, reply, gryffMode, lwpc, lrpc, pidx, acc>>

\* totalOrs += len(orInfos[i].startTimes)
P_Len ==
  /\ lppc = "len"
  /\ ors' = ors + Cardinality(DOMAIN startTimes[Info(pidx)])
  /\ acc' = Access(ThePrinter, Info(pidx), FALSE)
  /\ lppc' = "unlock"
  /\ UNCHANGED <<lockOther, startTimes, isRead, id, argsOp, reply, gryffMode, mutex, lwpc, lrpc, pidx>>

\* orInfos[i].Unlock(); i++, and the loop of the next tick after the last i
P_Unlock ==
  /\ lppc = "unlock"
  /\ mutex' = [mutex EXCEPT ![Info(pidx)] = @ \ {ThePrinter}]
  /\ pidx' = IF pidx = Cardinality(Clients) THEN 1 ELSE pidx + 1
  /\ lppc' = "lock"
  /\ UNCHANGED <<lockOther, startTimes, isRead, id, argsOp, reply, gryffMode, lwpc, lrpc, ors, acc>>

\* the key choice before the issuer's loop, with -sr 0
KeyIdle ==
  /\ startRange = 0
  /\ kid = 0
  /\ keyId = 0
  /\ keyK = 0
  /\ keyCold = FALSE

BatchIdle ==
  /\ batch1 = <<>>
  /\ batch2 = <<>>
  /\ batchRes = <<>>

ConfInit ==
  /\ gamma \in Commands
  /\ delta \in Commands
  /\ conflictRes = <<>>
  /\ BatchIdle
  /\ KeyIdle
  /\ LockIdle

ConfQuiet ==
  /\ gamma = NoCommand
  /\ delta = NoCommand
  /\ conflictRes = <<>>
  /\ BatchIdle
  /\ KeyIdle

ConfIdle ==
  /\ ConfQuiet
  /\ LockIdle

BatchInit ==
  /\ gamma = NoCommand
  /\ delta = NoCommand
  /\ conflictRes = <<>>
  /\ batch1 \in Batches
  /\ batch2 \in Batches
  /\ batchRes = <<>>
  /\ KeyIdle
  /\ LockIdle

\* a call Conflict(&gamma, &delta)
CallConflict ==
  /\ conflictRes = <<>>
  /\ conflictRes' = <<Conflict(gamma, delta)>>
  /\ UNCHANGED <<gamma, delta, batch1, batch2, batchRes, keyVars, lockVars, pipeVars, execVars, rampVars>>

\* a call ConflictBatch(batch1, batch2)
CallConflictBatch ==
  /\ batchRes = <<>>
  /\ batchRes' = <<ConflictBatch(batch1, batch2)>>
  /\ UNCHANGED <<gamma, delta, conflictRes, batch1, batch2, keyVars, lockVars, pipeVars, execVars, rampVars>>

(* ------------------------- the issuer's key choice ---------------------- *)
\* width of the issuer's int32 (id, and the key sum of the raw variant),
\* scaled down
IntBits == 8
Modulus == 2 ^ IntBits
\* conversion to, and arithmetic in, the signed integer of IntBits bits
Wrap(x) == ((x + Modulus \div 2) % Modulus) - Modulus \div 2

\* args.Command.K = 42
HotKey == 42
\* state.Key(int32(*startRange) + 43 + id)
ColdKey(sr, i) == Wrap(Wrap(sr) + 43 + i)

\* -sr values explored: negative, zero, small, near the top of the int32
\* and above it
StartRanges == {-1, 0, 5, Modulus \div 2 - 44, Modulus}

KeyInit ==
  /\ startRange \in StartRanges
  /\ kid = 0
  /\ keyId = 0
  /\ keyK = 0
  /\ keyCold = FALSE
  /\ gamma = NoCommand
  /\ delta = NoCommand
  /\ conflictRes = <<>>
  /\ BatchIdle
  /\ LockIdle

\* r < *conflicts: the hot key; id++
K_Hot ==
  /\ keyK' = HotKey
  /\ keyCold' = FALSE
  /\ keyId' = kid
  /\ kid' = Wrap(kid + 1)
  /\ UNCHANGED <<startRange, gamma, delta, conflictRes, batch1, batch2, batchRes,
                 lockVars, pipeVars, execVars, rampVars>>

\* r >= *conflicts: the cold key of this id; id++
K_Cold ==
  /\ keyK' = ColdKey(startRange, kid)
  /\ keyCold' = TRUE
  /\ keyId' = kid
  /\ kid' = Wrap(kid + 1)
  /\ UNCHANGED <<startRange, gamma, delta, conflictRes, batch1, batch2, batchRes,
                 lockVars, pipeVars, execVars, rampVars>>

(* --------------------------- Command.Execute --------------------------- *)
Threads == {1, 2}

ExecInit(n) ==
  /\ goroutines = n
  /\ Store = EmptyMap
  /\ epc = [t \in Threads |-> "idle"]
  /\ ecmd = [t \in Threads |-> NoCommand]
  /\ eval = [t \in Threads |-> 0]
  /\ eret = [t \in Threads |-> NIL]
  /\ edone = [t \in Threads |-> 0]
  /\ rmwCnt = [k \in Keys |-> 0]
  /\ putOn = [k \in Keys |-> FALSE]

ExecIdle == ExecInit(0)

\* calls of Execute begun so far
Begun == SumOver(LAMBDA t : edone[t] + (IF epc[t] = "idle" THEN 0 ELSE 1), Threads)

\* a goroutine calls c.Execute(st)
E_Call(t) ==
  /\ t <= goroutines
  /\ epc[t] = "idle"
  /\ Begun < MaxCmds
  /\ \E c \in Commands : ecmd' = [ecmd EXCEPT ![t] = c]
  /\ epc' = [epc EXCEPT ![t] = "switch"]
  /\ UNCHANGED <<goroutines, Store, eval, eret, edone, rmwCnt, putOn,
                 pipeVars, confVars, rampVars>>

\* case PUT: st.Store[c.K] = c.V; return c.V
E_Put(t) ==
  /\ epc[t] = "switch"
  /\ ecmd[t].Op = PUT
  /\ Store' = MapSet(Store, ecmd[t].K, ecmd[t].V)
  /\ eret' = [eret EXCEPT ![t] = ecmd[t].V]
  /\ putOn' = [putOn EXCEPT ![ecmd[t].K] = TRUE]
  /\ epc' = [epc EXCEPT ![t] = "idle"]
  /\ edone' = [edone EXCEPT ![t] = @ + 1]
  /\ UNCHANGED <<goroutines, ecmd, eval, rmwCnt, pipeVars, confVars, rampVars>>

\* case GET: return the stored value when present, else fall through to NIL
E_Get(t) ==
  /\ epc[t] = "switch"
  /\ ecmd[t].Op = GET
  /\ eret' = [eret EXCEPT ![t] = MapGet(Store, ecmd[t].K, NIL)]
  /\ epc' = [epc EXCEPT ![t] = "idle"]
  /\ edone' = [edone EXCEPT ![t] = @ + 1]
  /\ UNCHANGED <<goroutines, Store, ecmd, eval, rmwCnt, putOn,
                 pipeVars, confVars, rampVars>>

\* variant: a DELETE case that removes the key from the store
E_DefaultDeletes(t) ==
  /\ epc[t] = "switch"
  /\ ecmd[t].Op \in {NONE, DELETE, RLOCK}
  /\ Store' = IF ecmd[t].Op = DELETE THEN MapDelete(Store, ecmd[t].K) ELSE Store
  /\ eret' = [eret EXCEPT ![t] = NIL]
  /\ epc' = [epc EXCEPT ![t] = "idle"]
  /\ edone' = [edone EXCEPT ![t] = @ + 1]
  /\ UNCHANGED <<goroutines, ecmd, eval, rmwCnt, putOn,
                 pipeVars, confVars, rampVars>>

\* no case of the switch matches NONE, DELETE, RLOCK: return NIL
E_Default(t) ==
  /\ epc[t] = "switch"
  /\ ecmd[t].Op \in {NONE, DELETE, RLOCK}
  /\ eret' = [eret EXCEPT ![t] = NIL]
  /\ epc' = [epc EXCEPT ![t] = "idle"]
  /\ edone' = [edone EXCEPT ![t] = @ + 1]
  /\ UNCHANGED <<goroutines, Store, ecmd, eval, rmwCnt, putOn,
                 pipeVars, confVars, rampVars>>

\* variant: the value read is stored back without the increment
RmwModifyForgotten(val) == val

\* val += 1
RmwModify(val) == val + 1

\* case RMW: val, present := st.Store[c.K], 0 being the default value read
E_RmwRead(t) ==
  /\ epc[t] = "switch"
  /\ ecmd[t].Op = RMW
  /\ eval' = [eval EXCEPT ![t] = MapGet(Store, ecmd[t].K, 0)]
  /\ epc' = [epc EXCEPT ![t] = "rmw"]
  /\ UNCHANGED <<goroutines, Store, ecmd, eret, edone, rmwCnt, putOn,
                 pipeVars, confVars, rampVars>>

\* case RMW: val += 1; st.Store[c.K] = val; return val
E_RmwWrite(t) ==
  /\ epc[t] = "rmw"
  /\ Store' = MapSet(Store, ecmd[t].K, RmwModify(eval[t]))
  /\ eret' = [eret EXCEPT ![t] = RmwModify(eval[t])]
  /\ rmwCnt' = [rmwCnt EXCEPT ![ecmd[t].K] = @ + 1]
  /\ epc' = [epc EXCEPT ![t] = "idle"]
  /\ edone' = [edone EXCEPT ![t] = @ + 1]
  /\ UNCHANGED <<goroutines, ecmd, eval, putOn, pipeVars, confVars, rampVars>>

\* t is about to write st.Store, t is about to read or write it
Writes(t) ==
  \/ epc[t] = "rmw"
  \/ epc[t] = "switch" /\ ecmd[t].Op = PUT
Accesses(t) ==
  \/ Writes(t)
  \/ epc[t] = "switch" /\ ecmd[t].Op \in {GET, RMW}

\* Execute takes no lock (st.mutex.Lock() is commented out): two goroutines
\* in the map at once, one of them writing, is a data race that the Go
\* runtime may end with "fatal error: concurrent map writes"
E_MapFault ==
  /\ \E t, u \in Threads : t # u /\ Writes(t) /\ Accesses(u)
  /\ epc' = [t \in Threads |-> "fatal"]
  /\ UNCHANGED <<goroutines, Store, ecmd, eval, eret, edone, rmwCnt, putOn,
                 pipeVars, confVars, rampVars>>

Execute(t) ==
  \/ E_Call(t)
  \/ E_Put(t)
  \/ E_Get(t)
  \/ E_Default(t)
  \/ E_RmwRead(t)
  \/ E_RmwWrite(t)

(* ========================= printerMultipeFile ========================== *)
\* clock steps per second
Resolution == 2
\* largest -rampUp, -rampDown and -timeout explored, in seconds
MaxRamp == 2
MaxTimeout == 5
\* records the channel holds in this specification
MaxBuffered == 2

\* int(currentRuntime.Seconds()): whole seconds, the fraction cut off
Seconds(d) == d \div Resolution

\* *rampUp < int(currentRuntime.Seconds()) &&
\*   int(currentRuntime.Seconds()) < *timeout-*rampDown
InWindow(up, down, tmo, runtime) ==
  up < Seconds(runtime) /\ Seconds(runtime) < tmo - down

RampInit ==
  /\ rampUp \in 0..MaxRamp
  /\ rampDown \in 0..MaxRamp
  /\ timeout \in 0..MaxTimeout
  /\ elapsed \in 0..(Resolution - 1)
  /\ currentRuntime = 0
  /\ buffered = 0
  /\ mpc = "sleep"
  /\ mcount = 0
  /\ tickDrained = 0
  /\ tickTraced = 0
  /\ tickSummary = 0

RampIdle ==
  /\ rampUp = 0
  /\ rampDown = 0
  /\ timeout = 0
  /\ elapsed = 0
  /\ currentRuntime = 0
  /\ buffered = 0
  /\ mpc = "sleep"
  /\ mcount = 0
  /\ tickDrained = 0
  /\ tickTraced = 0
  /\ tickSummary = 0

\* the last clock step the exploration follows
MaxElapsed == (MaxTimeout + 1) * Resolution

\* a client sends a response on readings
M_Arrive ==
  /\ buffered < MaxBuffered
  /\ buffered' = buffered + 1
  /\ UNCHANGED <<rampUp, rampDown, timeout, elapsed, currentRuntime, mpc, mcount,
                 tickDrained, tickTraced, tickSummary,
                 pipeVars, confVars, execVars>>

\* variant: a tick that waits for at least one record
M_SleepWaitsForOne ==
  /\ mpc = "sleep"
  /\ \E d \in Resolution..(2 * Resolution - 1) :
       /\ elapsed + d <= MaxElapsed
       /\ elapsed' = elapsed + d
       /\ currentRuntime' = elapsed + d
  /\ mcount' = IF buffered = 0 THEN 1 ELSE buffered
  /\ tickDrained' = 0
  /\ tickTraced' = 0
  /\ tickSummary' = 0
  /\ mpc' = "drain"
  /\ UNCHANGED <<rampUp, rampDown, timeout, buffered, pipeVars, confVars, execVars>>

\* time.Sleep(time.Second) returns after a second or more;
\* count := len(readings); currentRuntime := time.Now().Sub(experimentStart)
M_Sleep ==
  /\ mpc = "sleep"
  /\ \E d \in Resolution..(2 * Resolution - 1) :
       /\ elapsed + d <= MaxElapsed
       /\ elapsed' = elapsed + d
       /\ currentRuntime' = elapsed + d
  /\ mcount' = buffered
  /\ tickDrained' = 0
  /\ tickTraced' = 0
  /\ tickSummary' = 0
  /\ mpc' = "drain"
  /\ UNCHANGED <<rampUp, rampDown, timeout, buffered, pipeVars, confVars, execVars>>

\* resp := <-readings, which waits while the channel is empty; the trace
\* line is written inside the window only
M_Recv ==
  /\ mpc = "drain"
  /\ mcount > 0
  /\ buffered > 0
  /\ buffered' = buffered - 1
  /\ mcount' = mcount - 1
  /\ tickDrained' = tickDrained + 1
  /\ tickTraced' = tickTraced +
       (IF InWindow(rampUp, rampDown, timeout, currentRuntime) THEN 1 ELSE 0)
  /\ UNCHANGED <<rampUp, rampDown, timeout, elapsed, currentRuntime, mpc,
                 tickSummary, pipeVars, confVars, execVars>>

\* after the drain loop: the summary line is written inside the window only
M_Summary ==
  /\ mpc = "drain"
  /\ mcount = 0
  /\ tickSummary' = tickSummary +
       (IF InWindow(rampUp, rampDown, timeout, currentRuntime) THEN 1 ELSE 0)
  /\ mpc' = "sleep"
  /\ UNCHANGED <<rampUp, rampDown, timeout, elapsed, currentRuntime, buffered,
                 mcount, tickDrained, tickTraced, pipeVars, confVars, execVars>>

(* ---------------------------- idle pipeline ---------------------------- *)
PipeIdle ==
  /\ GryffIdle
  /\ poissonAvg = -1
  /\ sema = [c \in Clients |-> 0]
  /\ startTimes = [c \in Clients |-> EmptyMap]
  /\ isRead = [c \in Clients |-> EmptyMap]
  /\ wpc = [c \in Clients |-> "acquire"]
  /\ id = [c \in Clients |-> 0]
  /\ argsOp = [c \in Clients |-> PUT]
  /\ queuedReqs = [c \in Clients |-> 0]
  /\ wire = [c \in Clients |-> {}]
  /\ rpc = [c \in Clients |-> "read"]
  /\ reply = [c \in Clients |-> 0]
  /\ resp = [c \in Clients |-> NoResp]
  /\ readings = <<>>
  /\ ppc = "sleep"
  /\ count = 0
  /\ panicked = FALSE
  /\ unacked = [c \in Clients |-> {}]
  /\ sentCnt = [c \in Clients |-> [i \in Ids |-> 0]]
  /\ recvCnt = [c \in Clients |-> [i \in Ids |-> 0]]
  /\ deadFree = [c \in Clients |-> -1]
  /\ deadSent = [c \in Clients |-> -1]
  /\ deadAdm = [c \in Clients |-> -1]

(* ------------------------------- Spec ---------------------------------- *)
Init == PipeInit /\ ConfIdle /\ ExecIdle /\ RampIdle

Issuer(c) ==
  \/ W_Acquire(c)
  \/ W_TryAcquireOk(c)
  \/ W_Pace(c)
  \/ W_TryAcquireFail(c)
  \/ W_Missed(c)
  \/ W_Flush(c)
  \/ W_Record(c)

Receiver(c) ==
  \/ R_Unmarshal(c)
  \/ R_Failure(c)
  \/ R_DecodeError(c)
  \/ R_Release(c)
  \/ R_Lookup(c)
  \/ R_Send(c)

Next ==
  \/ \E c \in Clients : Issuer(c)
  \/ \E c \in Clients : Receiver(c)
  \/ P_Sleep
  \/ P_Recv
  \/ P_Summary

Spec == Init /\ [][Next]_vars

\* The closed loop with a backend that answers every request successfully:
\* the issuer blocks in Acquire, the receiver never meets a decode error or a
\* failure status.  Each goroutine that can take a step eventually takes one
\* (the Go scheduler starves no runnable goroutine), the aggregator included.
LiveInit ==
  /\ poissonAvg = -1
  /\ PipeStart
InitLive == LiveInit /\ ConfIdle /\ ExecIdle /\ RampIdle
LiveIssuer(c) ==
  \/ W_Acquire(c)
  \/ W_Flush(c)
  \/ W_Record(c)
LiveReceiver(c) ==
  \/ R_Unmarshal(c)
  \/ R_Release(c)
  \/ R_Lookup(c)
  \/ R_Send(c)
Printer ==
  \/ P_Sleep
  \/ P_Recv
  \/ P_Summary
NextLive ==
  \/ \E c \in Clients : LiveIssuer(c)
  \/ \E c \in Clients : LiveReceiver(c)
  \/ Printer
Fairness ==
  /\ \A c \in Clients : WF_vars(LiveIssuer(c))
  /\ \A c \in Clients : WF_vars(LiveReceiver(c))
  /\ WF_vars(Printer)
SpecLive == InitLive /\ [][NextLive]_vars /\ Fairness

\* the locked sections of the paths, statement by statement, in any
\* interleaving and with any CommandId in the reply
InitMutex == LockInit /\ ConfQuiet /\ PipeIdle /\ ExecIdle /\ RampIdle
LockedIssuer(c) ==
  \/ W_Lock(c)
  \/ W_SetIsRead(c)
  \/ W_SetStart(c)
  \/ W_Unlock(c)
LockedReceiver(c) ==
  \/ R_Lock(c)
  \/ R_GetStart(c)
  \/ R_GetIsRead(c)
  \/ R_Delete(c)
  \/ R_Unlock(c)
LockedGryff(c) ==
  \/ G_Lock(c)
  \/ G_SetStart(c)
  \/ G_Unlock(c)
LockedPrinter ==
  \/ P_Lock
  \/ P_Len
  \/ P_Unlock
NextMutex ==
  \/ \E c \in Clients : LockedIssuer(c)
  \/ \E c \in Clients : LockedReceiver(c)
  \/ \E c \in Clients : LockedGryff(c)
  \/ LockedPrinter
SpecMutex == InitMutex /\ [][NextMutex]_vars

\* the clients and the start of the printer, whose os.Create may fail; the
\* loop the printer enters after a successful creation is what Spec explores
InitExit == ExitInit /\ ConfIdle /\ ExecIdle /\ RampIdle
NextExit ==
  \/ \E c \in Clients : Issuer(c)
  \/ \E c \in Clients : Receiver(c)
  \/ P_CreateOk
  \/ P_CreateFails
SpecExit == InitExit /\ [][NextExit]_vars

\* -replProtocol gryff: one simulatedGryffClientWriter per client. The
\* writer is the only goroutine that takes units of its semaphore and it
\* gives its unit back before it comes round to the acquire, so its
\* TryAcquire finds a unit free every time and the failed branch (W_TryAcquireFail,
\* W_Missed) is never taken.
GryffWriter(c) ==
  \/ W_Acquire(c)
  \/ W_TryAcquireOk(c)
  \/ W_Pace(c)
  \/ G_Call(c)
  \/ G_Return(c)
  \/ G_Record(c)
  \/ G_Release(c)
  \/ G_Send(c)

NextGryff ==
  \/ \E c \in Clients : GryffWriter(c)
  \/ A_Sleep
  \/ A_Recv
  \/ A_Summary

SpecGryff == Init /\ [][NextGryff]_vars

\* the clients of either kind, as -replProtocol selects them
InitUnits == PipeInit /\ LockInit /\ ConfQuiet /\ ExecIdle /\ RampIdle
RawStep == ~gryffMode /\ Next
GryffStep == gryffMode /\ NextGryff
NextUnits ==
  \/ RawStep
  \/ GryffStep
SpecUnits == InitUnits /\ [][NextUnits]_vars

InitPacing == PacingInit /\ ConfIdle /\ ExecIdle /\ RampIdle
SpecPacing == InitPacing /\ [][Next]_vars

InitConflict == ConfInit /\ PipeIdle /\ ExecIdle /\ RampIdle
NextConflict == CallConflict
SpecConflict == InitConflict /\ [][NextConflict]_vars

InitBatch == BatchInit /\ PipeIdle /\ ExecIdle /\ RampIdle
NextBatch == CallConflictBatch
SpecBatch == InitBatch /\ [][NextBatch]_vars

InitKeys == KeyInit /\ PipeIdle /\ ExecIdle /\ RampIdle
NextKeys ==
  \/ K_Hot
  \/ K_Cold
SpecKeys == InitKeys /\ [][NextKeys]_vars

InitExec == ExecInit(1) /\ PipeIdle /\ ConfIdle /\ RampIdle
NextExec == \E t \in Threads : Execute(t)
SpecExec == InitExec /\ [][NextExec]_vars

InitRMW == ExecInit(2) /\ PipeIdle /\ ConfIdle /\ RampIdle
NextRMW ==
  \/ \E t \in Threads : Execute(t)
  \/ E_MapFault
SpecRMW == InitRMW /\ [][NextRMW]_vars

InitRamp == RampInit /\ PipeIdle /\ ConfIdle /\ ExecIdle
NextRamp ==
  \/ M_Arrive
  \/ M_Sleep
  \/ M_Recv
  \/ M_Summary
SpecRamp == InitRamp /\ [][NextRamp]_vars
(* ===================== claims about the pipeline ======================= *)

\* C1: for every simulated client, closed-loop or Poisson, the requests sent
\* whose reply the receiver has not yet processed (the admission units held)
\* never number more than the outstanding bound.
C1_AdmissionBound ==
  \A c \in Clients :
    /\ sema[c] >= 0
    /\ sema[c] <= OutstandingReqs
    /\ Cardinality(unacked[c]) <= sema[c]

\* C1 witness: in Poisson pacing a client has all its units out on requests
\* and its issuer has missed a departure at the full semaphore.
C1_Witness ==
  \E c \in Clients :
    /\ poissonAvg # -1
    /\ Cardinality(unacked[c]) = OutstandingReqs
    /\ wpc[c] = "acquire"
    /\ queuedReqs[c] > 0

\* C2: the number of entries of a client's startTimes table never exceeds the
\* outstanding bound, under every interleaving of issuer and receiver.
C2_TableBound ==
  \A c \in Clients : Cardinality(DOMAIN startTimes[c]) <= OutstandingReqs

\* a client is quiescent: its issuer is at the head of its loop, every request
\* it flushed has had its reply read and released, and its receiver is back at
\* the read
Quiescent(c) ==
  /\ ~panicked
  /\ wpc[c] = "acquire"
  /\ rpc[c] = "read"
  /\ unacked[c] = {}
  /\ wire[c] = {}

\* C3: once the issuer has finished its iterations and every reply (one
\* successful reply per id, in any order) has been processed, the startTimes
\* table is empty.
C3_TableEmptyAtEnd ==
  \A c \in Clients : (Quiescent(c) /\ id[c] > 0) => DOMAIN startTimes[c] = {}

\* C4: the issuer's table write precedes the flush, so every id on the
\* connection, and every id the receiver is about to look up, has its entry
\* in startTimes.
C4_WriteBeforeFlush ==
  \A c \in Clients :
    /\ \A i \in wire[c] : i \in DOMAIN startTimes[c]
    /\ rpc[c] \in {"release", "lookup"} => reply[c] \in DOMAIN startTimes[c]

\* the records for reply i of client c that sit in the readings channel
InChannel(c, i) ==
  Cardinality({k \in 1..Len(readings) :
                 readings[k].client = c /\ readings[k].id = i})

\* reply i of client c has been processed to the end of the receiver's iteration
Processed(c, i) ==
  /\ i < Flushed(c)
  /\ i \notin unacked[c]
  /\ ~(reply[c] = i /\ rpc[c] \in {"lookup", "send"})

\* C5: exactly-once accounting: every successful reply the receiver has
\* processed has put exactly one record on readings, nothing else has put
\* one, and every record sent is either still buffered or was received by the
\* aggregator exactly once.
C5_ExactlyOnce ==
  \A c \in Clients : \A i \in Ids :
    /\ sentCnt[c][i] = (IF Processed(c, i) THEN 1 ELSE 0)
    /\ recvCnt[c][i] + InChannel(c, i) = sentCnt[c][i]

\* C5 witness: the aggregator has received records of both clients while a
\* further record is buffered or a receiver is busy.
C5_Witness ==
  /\ \E i \in Ids : recvCnt[1][i] = 1
  /\ \E j \in Ids : recvCnt[2][j] = 1

\* the receiver loop of c broke in closed-loop mode
DeadClosed(c) == rpc[c] = "dead" /\ poissonAvg = -1

\* C10 as stated: after the receiver loop broke, the closed-loop issuer
\* sends at most as many further requests as units were free at that moment.
C10_AtMostFreeUnits ==
  \A c \in Clients :
    DeadClosed(c) => Flushed(c) - deadSent[c] <= deadFree[c]

\* the step in which the receiver loop of c breaks accounts for nothing
BreakAccountsNothing(c) ==
  (rpc[c] # "dead" /\ rpc'[c] = "dead") =>
    /\ sema'[c] = sema[c]
    /\ startTimes'[c] = startTimes[c]
    /\ readings' = readings
    /\ sentCnt'[c] = sentCnt[c]
    /\ wpc'[c] = wpc[c]

\* after the break nothing is released, removed or emitted for c any more
DeadStaysDead(c) ==
  rpc[c] = "dead" =>
    /\ rpc'[c] = "dead"
    /\ sema'[c] >= sema[c]
    /\ DOMAIN startTimes[c] \subseteq DOMAIN startTimes'[c]
    /\ sentCnt'[c] = sentCnt[c]

\* the issuer of a dead receiver runs on while a unit is free, and is blocked
\* at the acquire when none is
DeadIssuer(c) ==
  DeadClosed(c) =>
    /\ Admitted(c) - deadAdm[c] <= deadFree[c]
    /\ Flushed(c) - deadSent[c] <= deadFree[c] + (deadAdm[c] - deadSent[c])
    /\ (wpc[c] = "acquire" /\ MayIssue) =>
         (ENABLED W_Acquire(c) <=> sema[c] < OutstandingReqs)
    /\ wpc[c] = "flush" => ENABLED W_Flush(c)
    /\ wpc[c] = "record" => ENABLED W_Record(c)

\* C10 (amended): a decode error or a failure reply ends the receiver loop
\* only; nothing is accounted for it; the issuer keeps running, is admitted
\* at most as often as units were free at the break (so it sends at most that
\* many further requests, plus the one it had already been admitted for) and
\* then stays blocked at the acquire.
C10_ReceiverBreak ==
  /\ [](\A c \in Clients : DeadIssuer(c))
  /\ [][\A c \in Clients : BreakAccountsNothing(c) /\ DeadStaysDead(c)]_vars

\* C10 witness: closed loop, the receiver broke, the issuer has since used up
\* the units that were free and now waits at the acquire with none left.
C10_Witness ==
  \E c \in Clients :
    /\ DeadClosed(c)
    /\ deadFree[c] >= 1
    /\ Admitted(c) - deadAdm[c] = deadFree[c]
    /\ wpc[c] = "acquire"
    /\ sema[c] = OutstandingReqs
    /\ MayIssue

\* records sent on readings so far, records the aggregator has received
SentTotal == SumOver(LAMBDA c : SumOver(LAMBDA i : sentCnt[c][i], Ids), Clients)
RecvTotal == SumOver(LAMBDA c : SumOver(LAMBDA i : recvCnt[c][i], Ids), Clients)

\* a receiver with a record in hand can send it exactly when the channel has
\* room, and waits with the record otherwise
SendBlocksWhenFull(c) ==
  (rpc[c] = "send" /\ ~panicked) =>
    /\ resp[c] # NoResp
    /\ ENABLED R_Send(c) <=> Len(readings) < ReadingsCap

\* a receiver leaves the send only by appending its record, and the channel
\* loses a record only to a receive of the aggregator
SendAppends(c) ==
  (rpc[c] = "send" /\ rpc'[c] # "send") => readings' = Append(readings, resp[c])
OnlyDrainRemoves ==
  (\A k \in 1..Len(readings) : k <= Len(readings') /\ readings'[k] = readings[k])
  \/ (readings' = Tail(readings) /\ RecvTotal' = RecvTotal + 1)

\* C11: the readings channel is a bounded buffer and drops nothing: it never
\* holds more than its capacity, a receiver whose send finds it full waits
\* with its record until the aggregator has drained, and the records sent
\* always number the records buffered plus the records already drained.
C11_NoRecordDropped ==
  /\ [](/\ Len(readings) <= ReadingsCap
        /\ SentTotal = Len(readings) + RecvTotal
        /\ \A c \in Clients : SendBlocksWhenFull(c))
  /\ [][OnlyDrainRemoves /\ \A c \in Clients : SendAppends(c)]_vars

\* C11 witness: a record was sent and fills the channel, and a receiver
\* waits at its send with the next record.
C11_Witness ==
  /\ SentTotal = ReadingsCap
  /\ Len(readings) = ReadingsCap
  /\ \E c \in Clients : rpc[c] = "send" /\ ~ENABLED R_Send(c)
\* C14: with a zero or negative -poisson the issuer takes the closed-loop
\* path: it waits for a unit in a blocking acquire, never takes the
\* non-blocking acquire, and counts no queued departure.
C14_NonPositiveMeanClosedLoop ==
  poissonAvg <= 0 =>
    \A c \in Clients :
      /\ queuedReqs[c] = 0
      /\ ~ENABLED W_TryAcquireOk(c)
      /\ ~ENABLED W_TryAcquireFail(c)

\* the records on their way to the aggregator: buffered, or in a receiver's
\* hand at its send
Emitted ==
  {readings[k] : k \in 1..Len(readings)} \cup
  {resp[c] : c \in {d \in Clients : resp[d] # NoResp}}

\* C15: every record the receiver emits for reply id i has its latency
\* computed from the issue time the issuer recorded for that same id i,
\* never from the zero time and never from the issue time of another
\* request, under every interleaving of issuer and receiver.
C15_LatencyFromIssueTime ==
  \A r \in Emitted : r.before = IssueTime(r.id)

\* C16: on each successful reply the receiver removes both the issue-time
\* entry and the read/write-flag entry of the matching id, so that once the
\* issuer has recorded a request and its reply has been processed neither
\* startTimes nor isRead retains an entry for that id.
C16_BothEntriesRemoved ==
  \A c \in Clients : \A i \in Ids :
    (Processed(c, i) /\ i < id[c]) =>
      /\ i \notin DOMAIN startTimes[c]
      /\ i \notin DOMAIN isRead[c]

\* the issuer of c is at the non-blocking acquire of the open-loop mode
AtTryAcquire(c) == poissonAvg # -1 /\ wpc[c] = "acquire" /\ ~panicked

\* in open-loop mode the issuer is never at a blocking acquire: at the head
\* of the retry loop one of the two outcomes of TryAcquire is taken (as far
\* as the exploration follows the issuer), and each sleep ends
NeverBlocksOnAcquire(c) ==
  poissonAvg # -1 =>
    /\ ~ENABLED W_Acquire(c)
    /\ (AtTryAcquire(c) /\ sema[c] < OutstandingReqs /\ MayIssue) =>
         ENABLED W_TryAcquireOk(c)
    /\ (AtTryAcquire(c) /\ sema[c] >= OutstandingReqs /\ queuedReqs[c] < MaxQueued) =>
         ENABLED W_TryAcquireFail(c)
    /\ (wpc[c] = "pace" /\ ~panicked) => ENABLED W_Pace(c)
    /\ (wpc[c] = "missed" /\ ~panicked) => ENABLED W_Missed(c)

\* a step of the issuer of c out of the TryAcquire, by its outcome
FailedAcquireSleeps(c) ==
  (AtTryAcquire(c) /\ wpc'[c] # "acquire" /\ sema[c] >= OutstandingReqs) =>
    /\ wpc'[c] = "missed"
    /\ queuedReqs'[c] = queuedReqs[c]
    /\ sema'[c] = sema[c]
MissedCountsOne(c) ==
  (wpc[c] = "missed" /\ wpc'[c] # "missed") =>
    /\ wpc'[c] = "acquire"
    /\ queuedReqs'[c] = queuedReqs[c] + 1
SuccessSleepsOrTakesCredit(c) ==
  (AtTryAcquire(c) /\ wpc'[c] # "acquire" /\ sema[c] < OutstandingReqs) =>
    /\ sema'[c] = sema[c] + 1
    /\ IF queuedReqs[c] = 0
         THEN wpc'[c] = "pace" /\ queuedReqs'[c] = 0
         ELSE wpc'[c] = "flush" /\ queuedReqs'[c] = queuedReqs[c] - 1
PaceThenIssue(c) ==
  (wpc[c] = "pace" /\ wpc'[c] # "pace") =>
    wpc'[c] = "flush" /\ queuedReqs'[c] = queuedReqs[c]
\* queued changes in no other step
QueuedChangesOnlyThere(c) ==
  queuedReqs'[c] # queuedReqs[c] =>
    \/ wpc[c] = "missed"
    \/ AtTryAcquire(c) /\ sema[c] < OutstandingReqs /\ queuedReqs[c] > 0

\* C17: in open-loop (Poisson) mode the issuer never blocks on acquire; a
\* failed non-blocking acquire sleeps one interval and then adds exactly 1 to
\* queued; a successful acquire with queued = 0 sleeps one interval and
\* leaves queued at 0; a successful acquire with queued > 0 takes exactly 1
\* from queued without sleeping; queued starts at 0 and changes in no other
\* step, so it is never negative and is the failed acquires minus the
\* credit-consuming successes.
C17_OpenLoopPacing ==
  /\ [](\A c \in Clients : queuedReqs[c] >= 0 /\ NeverBlocksOnAcquire(c))
  /\ [][\A c \in Clients :
          /\ FailedAcquireSleeps(c)
          /\ MissedCountsOne(c)
          /\ SuccessSleepsOrTakesCredit(c)
          /\ PaceThenIssue(c)
          /\ QueuedChangesOnlyThere(c)]_vars

\* C17 witness: in Poisson mode an issuer has slept through a failed acquire
\* and counted it, and finds a unit free at its next try.
C17_Witness ==
  \E c \in Clients :
    /\ AtTryAcquire(c)
    /\ queuedReqs[c] > 0
    /\ sema[c] < OutstandingReqs
    /\ ENABLED W_TryAcquireOk(c)

(* ================== claims about the Gryff variant ===================== *)

\* requests of c that are issued and whose completion has not been observed:
\* sent on the connection with the unit not yet released (raw protocol), or
\* inside client.Read / client.Write (Gryff)
PendingReqs(c) ==
  Cardinality(unacked[c]) + (IF wpc[c] = "call" THEN 1 ELSE 0)

\* C18: on every tick the totalOrs written to the summary line is the sum
\* over the clients of the requests still pending when the tables are read,
\* in the Gryff variant as in the raw-protocol variant, and so never exceeds
\* T times the outstanding bound.
C18_TotalOutstanding ==
  /\ [](totalOrs <= Cardinality(Clients) * OutstandingReqs)
  /\ [][(ppc = "drain" /\ ppc' = "sleep") =>
          totalOrs' = SumOver(PendingReqs, Clients)]_vars

\* the Gryff writer of c is past a call that returned failure
AfterFailure(c) == wpc[c] \in {"record", "release", "send"} /\ ~success[c]

\* C19: when client.Read or client.Write returns failure the failure is
\* logged with the operation id, the unit is still given back and the loop
\* goes on, and no record whose latency was computed from the unset
\* completion time is received into the aggregator's sums.
C19_FailureGivesNoSample ==
  /\ [](\A c \in Clients : AfterFailure(c) =>
          /\ <<c, id[c]>> \in failLog
          /\ wpc[c] = "release" => ENABLED G_Release(c))
  /\ [][RecvTotal' = RecvTotal + 1 => Head(readings).receivedAt # ZeroTime]_vars

\* ticks of the printer that have come to their end
TicksDone == ticks - (IF ppc = "drain" THEN 1 ELSE 0)

\* C21: in single-file mode every tick writes exactly one summary line, also
\* when it drained no record (then with average 0, throughput 0 and count
\* 0), and one trace line per record drained: after k ticks lattput.txt has
\* k lines and latency.txt has as many lines as records were drained.
C21_OneLinePerTickAndRecord ==
  /\ lattputLines = TicksDone
  /\ latLines = RecvTotal
  /\ (lattputLines > 0 /\ ppc = "sleep") =>
       /\ lattputLast.count = drained
       /\ drained = 0 => (lattputLast.avg = 0 /\ lattputLast.tput = 0)

\* C21 witness: two ticks are over; the first drained a record, the second
\* found the channel empty and wrote its line of zeros.
C21_Witness ==
  /\ ppc = "sleep"
  /\ lattputLines = 2
  /\ latLines >= 1
  /\ lattputLast = [avg |-> 0, tput |-> 0, count |-> 0]

(* ==================== claims about package state ======================= *)

\* the command writes: it is a PUT or an RMW
IsWrite(c) == c.Op = PUT \/ c.Op = RMW

\* C6: Conflict(c1, c2) is true iff the keys are equal and at least one of
\* the two is a PUT or an RMW, over all six operation kinds; GET/GET on one
\* key is false, PUT/GET and RMW/GET on one key are true, PUT/PUT on
\* different keys is false, and the relation is symmetric.
C6_ConflictRelation ==
  conflictRes # <<>> =>
    LET r == conflictRes[1] IN
    /\ r = (gamma.K = delta.K /\ (IsWrite(gamma) \/ IsWrite(delta)))
    /\ (gamma.Op = GET /\ delta.Op = GET) => r = FALSE
    /\ (gamma.K = delta.K /\ gamma.Op = PUT /\ delta.Op = GET) => r = TRUE
    /\ (gamma.K = delta.K /\ gamma.Op = RMW /\ delta.Op = GET) => r = TRUE
    /\ (gamma.K # delta.K /\ gamma.Op = PUT /\ delta.Op = PUT) => r = FALSE
    /\ r = Conflict(delta, gamma)

\* C6 witness: Conflict was called with a GET and an RMW on one key, the
\* writing command second, and returned true.
C6_Witness ==
  /\ conflictRes = <<TRUE>>
  /\ gamma.Op = GET
  /\ delta.Op = RMW
  /\ gamma.K = delta.K

\* C7: two RMW commands on one key, dispatched concurrently through Execute
\* on one State, never lose an increment: when both have returned the stored
\* value has grown by exactly 2 and the two calls returned different values.
C7_NoLostIncrement ==
  \A k \in Keys :
    ( /\ \A t \in Threads : /\ epc[t] = "idle"
                            /\ edone[t] = 1
                            /\ ecmd[t].Op = RMW
                            /\ ecmd[t].K = k )
    => /\ MapGet(Store, k, 0) = 2
       /\ eret[1] # eret[2]

\* C8: from a State in which key K is unset, the n-th sequential RMW on K
\* returns n and leaves Store[K] = n, whatever is executed on other keys in
\* between.
C8_RmwSequence ==
  \A k \in Keys :
    ~putOn[k] =>
      /\ IF rmwCnt[k] = 0 THEN k \notin DOMAIN Store
                          ELSE k \in DOMAIN Store /\ Store[k] = rmwCnt[k]
      /\ ( /\ epc[1] = "idle"
           /\ edone[1] > 0
           /\ ecmd[1].Op = RMW
           /\ ecmd[1].K = k ) => eret[1] = rmwCnt[k]

\* C8 witness: the second RMW on a key has just returned 2, with another key
\* written in between.
C8_Witness ==
  \E k \in Keys :
    /\ ~putOn[k]
    /\ rmwCnt[k] = 2
    /\ epc[1] = "idle"
    /\ ecmd[1].Op = RMW
    /\ ecmd[1].K = k
    /\ eret[1] = 2
    /\ \E j \in Keys \ {k} : j \in DOMAIN Store

\* C12: ConflictBatch(b1, b2) is true iff some command of b1 conflicts with
\* some command of b2, for all finite batches; an empty batch conflicts with
\* nothing.
C12_ConflictBatch ==
  batchRes # <<>> =>
    /\ batchRes[1] = (\E i \in 1..Len(batch1) : \E j \in 1..Len(batch2) :
                         Conflict(batch1[i], batch2[j]))
    /\ (batch1 = <<>> \/ batch2 = <<>>) => batchRes[1] = FALSE

\* C12 witness: ConflictBatch returned true for two batches of two commands
\* whose only conflicting pair is the last command of each.
C12_Witness ==
  /\ batchRes = <<TRUE>>
  /\ Len(batch1) = 2
  /\ Len(batch2) = 2
  /\ \A i, j \in 1..2 : Conflict(batch1[i], batch2[j]) <=> (i = 2 /\ j = 2)

\* the step is the return of a call of Execute by goroutine t
Returns(t) == edone'[t] = edone[t] + 1

\* every key but k is set, and holds, after the step what it did before
OthersUnchanged(k) ==
  \A j \in Keys \ {k} :
    /\ j \in DOMAIN Store' <=> j \in DOMAIN Store
    /\ j \in DOMAIN Store => Store'[j] = Store[j]

\* the effect and the result of one call, by the kind of its command
ExecuteEffect(t) ==
  LET c == ecmd[t] IN
  /\ c.Op = PUT =>
       /\ c.K \in DOMAIN Store' /\ Store'[c.K] = c.V
       /\ eret'[t] = c.V
       /\ OthersUnchanged(c.K)
  /\ c.Op = GET =>
       /\ eret'[t] = (IF c.K \in DOMAIN Store THEN Store[c.K] ELSE NIL)
       /\ Store' = Store
  /\ c.Op \in {NONE, DELETE, RLOCK} =>
       /\ eret'[t] = NIL
       /\ Store' = Store

\* C13: Execute of a PUT {K, V} sets Store[K] = V, returns V and leaves every
\* other key as it was; Execute of a GET on K returns Store[K] when K is set
\* and NIL otherwise and leaves the Store as it was; Execute of NONE, DELETE
\* or RLOCK returns NIL and leaves the Store as it was.
C13_ExecuteFrame ==
  [][\A t \in Threads : Returns(t) => ExecuteEffect(t)]_vars

\* C13 witness: a GET has just returned the value 7 a PUT had stored on its
\* key, with the other key set as well.
C13_Witness ==
  /\ epc[1] = "idle"
  /\ edone[1] = MaxCmds
  /\ ecmd[1].Op = GET
  /\ eret[1] = 7
  /\ ecmd[1].K \in DOMAIN Store /\ Store[ecmd[1].K] = 7
  /\ \E j \in Keys \ {ecmd[1].K} : j \in DOMAIN Store

\* C22: in hot-key mode, for every range start, the cold key chosen for
\* request id i is rangeStart + 43 + i; it is not the hot key 42 and it is
\* not the cold key of any other id of the client, the 32-bit arithmetic of
\* the key sum and of the id counter included.
C22_ColdKeysDistinct ==
  keyCold =>
    /\ keyK = startRange + 43 + keyId
    /\ keyK # HotKey
    /\ \A j \in 0..(Modulus \div 2 - 1) :
         j # keyId => ColdKey(startRange, j) # keyK

(* ================= claims about printerMultipeFile ===================== *)

\* the tick at runtime e lies in the ramp-up period, in the ramp-down period
InRampUp(e) == e <= rampUp * Resolution
InRampDown(e) == e >= (timeout - rampDown) * Resolution

\* C9: a tick whose elapsed time lies inside the ramp-up period or inside the
\* ramp-down period (elapsed >= timeout - rampDown) writes no trace line and
\* no summary line; a tick outside both writes the trace line of every
\* drained record and the summary line.
\* With rampUp=10, rampDown=10, timeout=60 a record at 5 s is excluded, at
\* 30 s included, at 55 s excluded.
C9_RampWindow ==
  /\ ~InWindow(10, 10, 60, 5 * Resolution)
  /\ InWindow(10, 10, 60, 30 * Resolution)
  /\ ~InWindow(10, 10, 60, 55 * Resolution)
  /\ (mpc = "sleep" /\ currentRuntime > 0) =>
       IF InRampUp(currentRuntime) \/ InRampDown(currentRuntime)
         THEN tickTraced = 0 /\ tickSummary = 0
         ELSE tickTraced = tickDrained /\ tickSummary = 1

\* the drain of a tick, step by step: the tick starts with count = the
\* records buffered; each receive takes one record out of the channel and
\* one off the count; the tick ends when the count is used up
TickStartsWithBuffered ==
  (mpc = "sleep" /\ mpc' = "drain") =>
    /\ mcount' = buffered
    /\ tickDrained' = 0
    /\ buffered' = buffered
ReceiveTakesOne ==
  (mpc = "drain" /\ mcount' # mcount) =>
    /\ mcount' = mcount - 1
    /\ buffered' = buffered - 1
    /\ tickDrained' = tickDrained + 1
TickEndsWhenCounted ==
  (mpc = "drain" /\ mpc' = "sleep") =>
    /\ mcount = 0
    /\ buffered' = buffered
    /\ tickDrained' = tickDrained

\* C20: on every tick, inside the measurement window and during ramp-up and
\* ramp-down alike, the aggregator takes from the readings channel exactly
\* the records that were buffered at the start of the tick and never waits
\* for a record: the records still to be received are always in the channel,
\* and a tick that found none goes straight to its end.
C20_DrainExactlyBuffered ==
  /\ [](mpc = "drain" =>
          /\ mcount <= buffered
          /\ mcount > 0 => ENABLED M_Recv
          /\ mcount = 0 => ENABLED M_Summary)
  /\ [][TickStartsWithBuffered /\ ReceiveTakesOne /\ TickEndsWhenCounted]_vars

\* C20 witness: a tick in the ramp-down period found the channel empty and
\* has ended without a receive, although records arrived while it ran.
C20_Witness ==
  /\ mpc = "sleep"
  /\ currentRuntime > 0
  /\ InRampDown(currentRuntime)
  /\ ~InRampUp(currentRuntime)
  /\ tickDrained = 0
  /\ buffered > 0

\* the same loop in printer (one latency file): the receives still to be
\* done in a tick never outnumber the records in the channel
PrinterDrainsBuffered ==
  ppc = "drain" =>
    /\ count <= Len(readings)
    /\ (count > 0 /\ ~panicked) => ENABLED P_Recv
    /\ (count = 0 /\ ~panicked) => ENABLED P_Summary
(* ------------------ failure to create an output file ------------------- *)
\* some client has a request admitted and ready to flush, or a reply waiting
\* on its connection
TrafficPending ==
  \E c \in Clients : wpc[c] = "flush" \/ (rpc[c] = "read" /\ wire[c] # {})

\* C23 (as the code has it): when creation of an output file fails the
\* aggregator logs and returns; it runs on the main goroutine, so main returns
\* and the program is over: nothing is reported (no record was ever taken off
\* the channel) and no issuer or receiver path of any
\* client takes a further step, nor does the aggregator.
C23_ExitStopsClients ==
  ppc = "exited" =>
    /\ \A c \in Clients : ~ENABLED Issuer(c) /\ ~ENABLED Receiver(c)
    /\ ~ENABLED P_Sleep /\ ~ENABLED P_Recv /\ ~ENABLED P_Summary
    /\ RecvTotal = 0

\* file creation has failed while a client had traffic under way
C23_Witness == ppc = "exited" /\ TrafficPending /\ SentTotal > 0

\* C23 (as stated): after the aggregator's early exit the issuer and receiver
\* paths continue: an admitted request can still be flushed and a waiting
\* reply can still be read.
C23_ClientsContinue ==
  (ppc = "exited" /\ ~panicked) =>
    \A c \in Clients :
      /\ wpc[c] = "flush" => ENABLED W_Flush(c)
      /\ (rpc[c] = "read" /\ wire[c] # {}) => ENABLED R_Unmarshal(c)

(* --------------------------- closed-loop progress ---------------------- *)
\* the issuer of c waits in Acquire with every unit of c held
BlockedOnAcquire(c) == wpc[c] = "acquire" /\ sema[c] >= OutstandingReqs

\* C24: closed loop, every request answered successfully, the aggregator
\* ticking, weak fairness: no issuer stays blocked forever in Acquire with
\* all its units held (the receiver releases one); no issuer waits forever in
\* Acquire while the explored budget of requests lasts; and the clients never
\* deadlock before that budget is used up, after which every request has
\* completed and every unit is free again.
C24_ClosedLoopProgress ==
  /\ \A c \in Clients : []<>~BlockedOnAcquire(c)
  /\ \A c \in Clients : []<>~(wpc[c] = "acquire" /\ MayIssue)
  /\ <>[](/\ SumOver(Flushed, Clients) = MaxReqs
          /\ \A c \in Clients : sema[c] = 0 /\ unacked[c] = {})

\* an issuer that has used every unit before is admitted once more: a prior
\* request completed and released its unit
C24_Witness ==
  \E c \in Clients :
    /\ poissonAvg = -1
    /\ id[c] >= OutstandingReqs
    /\ wpc[c] = "flush"
    /\ sema[c] = OutstandingReqs

(* ------------------------- the client's mutex -------------------------- *)
\* the path is between its Lock() and its Unlock()
InIssuerSection(c) == lwpc[c] \in {"isread", "start", "unlock"}
InReceiverSection(c) == lrpc[c] \in {"getstart", "getisread", "delete", "unlock"}
InGryffSection(c) == lwpc[c] \in {"gstart", "gunlock"}

\* C25: every read or write of a client's startTimes and isRead (issuer,
\* receiver, polymorphic writer, the aggregator's count) is made while the
\* accessing path, and no other, holds that client's mutex; a mutex has at
\* most one holder; a path is in its locked section exactly while it holds
\* the mutex; and every access that modifies a table, and every access of a
\* client's own paths, is to the table of that same client.
C25_TablesUnderMutex ==
  /\ \A k \in Clients : Cardinality(mutex[k]) <= 1
  /\ acc # NoAccess =>
       /\ acc.holders = {acc.by}
       /\ acc.write => acc.by[2] = acc.table
       /\ acc.by # ThePrinter => acc.by[2] = acc.table
  /\ \A c \in Clients :
       /\ InIssuerSection(c) <=> IssuerOf(c) \in mutex[c]
       /\ InReceiverSection(c) <=> ReceiverOf(c) \in mutex[c]
       /\ InGryffSection(c) <=> GryffOf(c) \in mutex[c]
       /\ \A d \in Clients \ {c} :
            mutex[c] \cap {IssuerOf(d), ReceiverOf(d), GryffOf(d)} = {}
  /\ (lppc \in {"len", "unlock"}) <=> ThePrinter \in mutex[pidx]

\* the receiver of a client has deleted an entry and still holds the mutex,
\* the issuer of the same client waits in Lock with its request already
\* flushed, and the printer holds the mutex of the other client
C25_Witness ==
  \E c \in Clients : \E d \in Clients \ {c} :
    /\ acc = [by |-> ReceiverOf(c), table |-> c, write |-> TRUE, holders |-> {ReceiverOf(c)}]
    /\ lrpc[c] = "unlock"
    /\ lwpc[c] = "lock" /\ id[c] < MaxLocked
    /\ ThePrinter \in mutex[d]

(* ----------------------- conservation of the units --------------------- *)
\* successful Acquire / TryAcquire calls of client c so far
Acquires(c) == Admitted(c)

\* Release(1) calls made for client c so far: by the Gryff writer one in each
\* iteration that is past its Release; by the receiver one for each flushed
\* request whose reply has passed its Release
Releases(c) ==
  IF gryffMode
    THEN id[c] + (IF wpc[c] = "send" THEN 1 ELSE 0)
    ELSE Flushed(c) - Cardinality(unacked[c])

\* calls of the Gryff writer of c that have returned, with either result
CallsReturned(c) == id[c] + (IF wpc[c] \in {"record", "release", "send"} THEN 1 ELSE 0)

\* C26: admission units are conserved: Release is never called with no unit
\* held, the Release calls of a client never outnumber its successful
\* acquires, the units held are the acquires less the releases and lie in
\* [0, B]; the receiver has released one unit for each successful reply (each
\* record it has put on readings and the reply it is busy with past its
\* Release), and the Gryff writer one unit for each call that returned, failed
\* calls included, but for the call whose Release is next.
C26_UnitsConserved ==
  /\ ~panicked
  /\ \A c \in Clients :
       /\ Releases(c) <= Acquires(c)
       /\ sema[c] = Acquires(c) - Releases(c)
       /\ sema[c] \in 0..OutstandingReqs
       /\ gryffMode =>
            Releases(c) = CallsReturned(c) - (IF wpc[c] \in {"record", "release"} THEN 1 ELSE 0)
       /\ ~gryffMode =>
            Releases(c) = SumOver(LAMBDA i : sentCnt[c][i], Ids)
                            + (IF rpc[c] \in {"lookup", "send"} THEN 1 ELSE 0)

\* the Gryff writer has given back the unit of a call that failed
C26_Witness ==
  \E c \in Clients :
    /\ gryffMode
    /\ wpc[c] = "send"
    /\ ~success[c]
    /\ <<c, id[c]>> \in failLog
    /\ sema[c] = 0
    /\ id[c] > 0

====
